---------------------------- MODULE Spec2Model ----------------------------
(***************************************************************************)
(* One-way calendar sync (Outlook ICS feed -> Google Calendar).            *)
(*                                                                         *)
(* The model follows src/src/index.js: the worker's two entry points       *)
(* (scheduled, fetch), syncCalendars, and the reconciler syncEvents with   *)
(* its helpers.  The Google calendar is a state variable; every request    *)
(* the worker awaits is one step whose response is chosen by the           *)
(* environment.                                                            *)
(*                                                                         *)
(* JavaScript strings that the code takes apart (ISO instants) are         *)
(* sequences of tokens, so that split('T')[0] is computed, not assumed.    *)
(* A property the JSON body omits is the empty sequence <<>>.              *)
(***************************************************************************)
EXTENDS Integers, Sequences, FiniteSets, TLC

VARIABLES
    calendar,           \* the Google calendar: sequence of items, list order
    nextId,             \* next identifier the calendar hands out
    pc,                 \* where the current invocation stands
    trigger,            \* "none" | "scheduled" | "http"
    request,            \* <<>> or <<the HTTP request being handled>>
    response,           \* <<>> or <<the HTTP response returned>>
    outlookEvents,      \* syncCalendars: parsed source snapshot
    googleEvents,       \* syncCalendars: destination snapshot
    googleEventsByUid,  \* syncEvents: the Map, as a sequence of [key, value]
    seenUids,           \* syncEvents: the Set of uids seen
    stats,              \* syncEvents: the counters
    i,                  \* syncEvents: 1-based position in outlookEvents
    d,                  \* syncEvents: 1-based position in the Map's entries
    calls,              \* mutation requests issued by this run, in order
    thrown,             \* <<>> or <<message of the Error the run threw>>
    result,             \* <<>> or <<the value syncCalendars returned>>
    prev,               \* <<>> or <<source snapshot of the last run>>, see settle
    intact,             \* no call of this run failed and nobody else wrote
    rerun,              \* this run repeats prev on the calendar prev left
    peer                \* a second invocation, overlapping the first: its locals

vars == <<calendar, nextId, pc, trigger, request, response, outlookEvents,
          googleEvents, googleEventsByUid, seenUids, stats, i, d, calls,
          thrown, result, prev, intact, rerun, peer>>

runVars == <<outlookEvents, googleEvents, googleEventsByUid, seenUids, stats,
             i, d, calls, thrown, result>>

---------------------------------------------------------------------------
(* Bounds *)

\* longest source snapshot
MaxSrc == 2
\* identifiers the calendar hands out in one behaviour
MaxIds == 3

---------------------------------------------------------------------------
(* Time.  Dates are tokens; DayOf gives a date's distance from the day of  *)
(* the run, in days.                                                       *)

DayOf(date) ==
    CASE date = "2024-06-01" -> 12
      [] date = "2024-06-02" -> 13
      [] date = "2022-01-10" -> 0 - 861

\* timeMin.setDate(timeMin.getDate() - 30)
WindowPastDays == 30
\* timeMax.setFullYear(timeMax.getFullYear() + 1)
WindowFutureDays == 365

\* Date.prototype.toISOString(): "YYYY-MM-DD" "T" "HH:mm:ss.sssZ"
ISO(date, time) == <<date, "T", time>>

\* Faulty variant of SplitT0: the instant is not split.
SplitT0Whole(s) == s

\* s.split('T')[0]: the part before the first 'T'
RECURSIVE SplitT0(_)
SplitT0(s) ==
    IF s = <<>> \/ Head(s) = "T" THEN <<>>
    ELSE <<Head(s)>> \o SplitT0(Tail(s))

---------------------------------------------------------------------------
(* Source events, as parseICS returns them *)

NoOrganizer == <<>>

Ann == [email |-> "ann@example.com", displayName |-> "Ann",
        responseStatus |-> "accepted"]
Boss == [email |-> "boss@example.com", displayName |-> "Boss"]
\* organizer property without a value: email '' (line 117)
NobodyOrg == [email |-> "", displayName |-> ""]

\* A timed event of one hour.
TimedEvent(uid, summary, location, lm, date, att, org) ==
    [uid |-> uid, summary |-> summary, description |-> "",
     location |-> location,
     start |-> ISO(date, "09:00:00.000Z"), end |-> ISO(date, "10:00:00.000Z"),
     isAllDay |-> FALSE, lastModified |-> lm, attendees |-> att,
     organizer |-> org]

\* A whole-day event: DTSTART;VALUE=DATE, the end is the next day.
AllDayEvent(uid, summary, lm, date, nextDate, att, org) ==
    [uid |-> uid, summary |-> summary, description |-> "", location |-> "",
     start |-> ISO(date, "00:00:00.000Z"),
     end |-> ISO(nextDate, "00:00:00.000Z"),
     isAllDay |-> TRUE, lastModified |-> lm, attendees |-> att,
     organizer |-> org]

\* The events a feed may publish, in file order.  Event A: as first
\* published; with LAST-MODIFIED advanced and nothing else; renamed and moved
\* more than 30 days into the past without LAST-MODIFIED advancing.  Event B:
\* a whole day with guests; made a timed event in a room, without guests and
\* without LAST-MODIFIED advancing.
Pool ==
    << TimedEvent("A", "Standup", "", "T1", "2024-06-01", <<>>, <<NobodyOrg>>),
       TimedEvent("A", "Standup", "", "T2", "2024-06-01", <<>>, <<NobodyOrg>>),
       TimedEvent("A", "Standup (moved)", "", "T1", "2022-01-10", <<>>,
                  <<NobodyOrg>>),
       AllDayEvent("B", "Offsite", "T1", "2024-06-01", "2024-06-02",
                   <<Ann>>, <<Boss>>),
       TimedEvent("B", "Offsite", "Room 2", "T1", "2024-06-01", <<>>,
                  NoOrganizer) >>

\* Strictly increasing index sequences into Pool of length at most n.
RECURSIVE Picks(_)
Picks(n) ==
    IF n = 0 THEN {<<>>}
    ELSE LET shorter == Picks(n - 1)
         IN  shorter \cup
             {Append(p, k) : p \in {q \in shorter : Len(q) = n - 1},
                             k \in 1..Len(Pool)}

Increasing(p) == \A a \in 1..Len(p) : \A b \in 1..Len(p) : a < b => p[a] < p[b]

\* The source snapshots: subsequences of Pool of length at most MaxSrc.
Snapshots ==
    {[k \in 1..Len(p) |-> Pool[p[k]]] : p \in {q \in Picks(MaxSrc) : Increasing(q)}}

Uids(events) == {events[k].uid : k \in 1..Len(events)}

UniqueUids(events) ==
    \A a \in 1..Len(events) : \A b \in 1..Len(events) :
        events[a].uid = events[b].uid => a = b

---------------------------------------------------------------------------
(* Destination items *)

\* event.extendedProperties?.private?.outlookSyncUid of an item without it
NoUid == ""

\* An event somebody made by hand in the Google calendar.
ForeignItem(id) ==
    [id |-> id, summary |-> "Standup", description |-> "", location |-> "",
     private |-> [outlookSyncUid |-> NoUid, outlookLastModified |-> ""],
     attendees |-> <<>>, organizer |-> <<>>,
     start |-> [date |-> <<>>, dateTime |-> ISO("2024-06-01", "09:00:00.000Z")],
     end |-> [date |-> <<>>, dateTime |-> ISO("2024-06-01", "10:00:00.000Z")]]

Owned(item) == item.private.outlookSyncUid # NoUid

Ids(items) == {items[k].id : k \in 1..Len(items)}

\* The day an endpoint ({date} or {dateTime}) falls on.
EndpointDay(t) == DayOf(IF t.dateTime # <<>> THEN t.dateTime[1] ELSE t.date[1])

---------------------------------------------------------------------------
(* The Google Calendar API, as the worker uses it *)

\* events.list with timeMin/timeMax: the items that end after timeMin and
\* start before timeMax, in list order.
InWindow(item) ==
    /\ EndpointDay(item.end) > 0 - WindowPastDays
    /\ EndpointDay(item.start) < WindowFutureDays

getGoogleCalendarEvents(cal) == SelectSeq(cal, InWindow)

\* Faulty variant of Insert: the calendar keeps one item for each outlookSyncUid.
InsertUpsert(cal, id, body) ==
    Append(SelectSeq(cal, LAMBDA it : it.private.outlookSyncUid
                                        # body.private.outlookSyncUid),
        [id |-> id, summary |-> body.summary, description |-> body.description,
         location |-> body.location, private |-> body.private,
         attendees |-> body.attendees, organizer |-> body.organizer,
         start |-> body.start, end |-> body.end])

\* events.insert: the calendar stores the body under a fresh identifier.
Insert(cal, id, body) ==
    Append(cal,
        [id |-> id, summary |-> body.summary, description |-> body.description,
         location |-> body.location, private |-> body.private,
         attendees |-> body.attendees, organizer |-> body.organizer,
         start |-> body.start, end |-> body.end])

\* One endpoint under PATCH: a member the body carries replaces the stored
\* one, a member it omits stays.
PatchEndpoint(old, new) ==
    [date |-> IF new.date # <<>> THEN new.date ELSE old.date,
     dateTime |-> IF new.dateTime # <<>> THEN new.dateTime ELSE old.dateTime]

\* events.patch (method: 'PATCH'): a property the body carries replaces the
\* stored one, a property it omits stays as it was.
PatchItem(item, body) ==
    [id |-> item.id, summary |-> body.summary, description |-> body.description,
     location |-> body.location, private |-> body.private,
     attendees |-> IF body.attendees # <<>> THEN body.attendees
                   ELSE item.attendees,
     organizer |-> IF body.organizer # <<>> THEN body.organizer
                   ELSE item.organizer,
     start |-> PatchEndpoint(item.start, body.start),
     end |-> PatchEndpoint(item.end, body.end)]

\* Faulty variant of Patch: the request is answered 2xx and nothing is stored.
PatchNothing(cal, id, body) == cal

Patch(cal, id, body) ==
    [k \in 1..Len(cal) |-> IF cal[k].id = id THEN PatchItem(cal[k], body)
                           ELSE cal[k]]

\* events.delete
Remove(cal, id) == SelectSeq(cal, LAMBDA it : it.id # id)

---------------------------------------------------------------------------
(* syncEvents: the parts that touch no network *)

\* Map.prototype.set: a known key keeps its place and takes the new value,
\* a new key goes last.
MapHas(m, key) == \E k \in 1..Len(m) : m[k].key = key

\* Faulty variant of MapSet: a known key keeps its value.
MapSetKeepsFirst(m, key, value) ==
    IF MapHas(m, key) THEN m ELSE Append(m, [key |-> key, value |-> value])

MapSet(m, key, value) ==
    IF MapHas(m, key)
    THEN [k \in 1..Len(m) |-> IF m[k].key = key
                              THEN [key |-> key, value |-> value] ELSE m[k]]
    ELSE Append(m, [key |-> key, value |-> value])

\* Map.prototype.get, for a key the map has
MapGet(m, key) == (CHOOSE e \in {m[k] : k \in 1..Len(m)} : e.key = key).value

\* Faulty variant of Indexed: the guard on uid is missing.
IndexedAlways(event) == TRUE

\* if (uid) { googleEventsByUid.set(uid, event) }
Indexed(event) == event.private.outlookSyncUid # NoUid

\* lines 191-198: the map of Google events by Outlook UID
RECURSIVE BuildIndex(_, _)
BuildIndex(m, events) ==
    IF events = <<>> THEN m
    ELSE LET event == Head(events)
             uid == event.private.outlookSyncUid
         IN  BuildIndex(IF Indexed(event) THEN MapSet(m, uid, event) ELSE m,
                        Tail(events))

\* lines 230-237: all-day vs timed
EncodeEndpoint(allDay, instant) ==
    IF allDay THEN [date |-> SplitT0(instant), dateTime |-> <<>>]
    ELSE [date |-> <<>>, dateTime |-> instant]

\* Faulty variant of googleEventBody: outlookLastModified is not stamped.
googleEventBodyNoStamp(e) ==
    [summary |-> e.summary, description |-> e.description,
     location |-> e.location,
     private |-> [outlookSyncUid |-> e.uid, outlookLastModified |-> ""],
     attendees |-> IF Len(e.attendees) > 0 THEN e.attendees ELSE <<>>,
     organizer |-> IF e.organizer # <<>> /\ e.organizer[1].email # ""
                   THEN e.organizer ELSE <<>>,
     start |-> EncodeEndpoint(e.isAllDay, e.start),
     end |-> EncodeEndpoint(e.isAllDay, e.end)]

\* lines 208-237: googleEventBody, as JSON.stringify sends it
googleEventBody(e) ==
    [summary |-> e.summary, description |-> e.description,
     location |-> e.location,
     private |-> [outlookSyncUid |-> e.uid,
                  outlookLastModified |-> e.lastModified],
     attendees |-> IF Len(e.attendees) > 0 THEN e.attendees ELSE <<>>,
     organizer |-> IF e.organizer # <<>> /\ e.organizer[1].email # ""
                   THEN e.organizer ELSE <<>>,
     start |-> EncodeEndpoint(e.isAllDay, e.start),
     end |-> EncodeEndpoint(e.isAllDay, e.end)]

\* Faulty variant of hasEventChanged: summary is not compared.
hasEventChangedNoSummary(googleEvent, newEventBody) ==
    \/ googleEvent.description # newEventBody.description
    \/ googleEvent.location # newEventBody.location

\* lines 269-275
hasEventChanged(googleEvent, newEventBody) ==
    \/ googleEvent.summary # newEventBody.summary
    \/ googleEvent.description # newEventBody.description
    \/ googleEvent.location # newEventBody.location

\* Faulty variant of NeedsUpdate: the timestamp is not compared.
NeedsUpdateContentOnly(existing, e) ==
    hasEventChanged(existing, googleEventBody(e))

\* line 247: the update condition
NeedsUpdate(existing, e) ==
    \/ existing.private.outlookLastModified # e.lastModified
    \/ hasEventChanged(existing, googleEventBody(e))

\* Faulty variant of Decision: a uid the pass has seen is skipped.
DecisionOncePerUid(m, e) ==
    IF e.uid \in seenUids THEN "unchanged"
    ELSE IF ~MapHas(m, e.uid) THEN "create"
    ELSE IF NeedsUpdate(MapGet(m, e.uid), e) THEN "update"
    ELSE "unchanged"

\* Faulty variant of Decision: an existing item is always updated.
DecisionAlwaysUpdate(m, e) == IF ~MapHas(m, e.uid) THEN "create" ELSE "update"

\* What the source pass does with one event: lines 239-254
Decision(m, e) ==
    IF ~MapHas(m, e.uid) THEN "create"
    ELSE IF NeedsUpdate(MapGet(m, e.uid), e) THEN "update"
    ELSE "unchanged"

ZeroStats == [created |-> 0, updated |-> 0, deleted |-> 0, unchanged |-> 0]

\* The locals of an invocation that has not begun.
IdlePeer ==
    [pc |-> "idle", outlookEvents |-> <<>>, googleEventsByUid |-> <<>>,
     seenUids |-> {}, stats |-> ZeroStats, i |-> 1, d |-> 1, calls |-> <<>>]

\* Faulty variant of Stale: the test of seenUids is missing.
StaleAll(m, seen, from) == from..Len(m)

\* Faulty variant of Stale: the negation of seenUids.has(uid) is missing.
StaleInverted(m, seen, from) == {k \in from..Len(m) : m[k].key \in seen}

\* line 259: the Map entries at or after position from whose key was not seen
Stale(m, seen, from) == {k \in from..Len(m) : m[k].key \notin seen}

Min(S) == CHOOSE x \in S : \A y \in S : x <= y

---------------------------------------------------------------------------
(* Requests the worker awaits *)

\* A mutation request ends in a 2xx response ("ok": it took effect), a 404
\* ("notfound": the item is not in the calendar), another non-2xx response
\* ("error": no effect), or fetch() rejects ("throw": no response at all).
Outcomes(present) ==
    IF present THEN {"ok", "error", "throw"} ELSE {"notfound", "error", "throw"}

\* createGoogleEvent / updateGoogleEvent: if (!response.ok) console.error(...)
LogsFailure(o) == o \in {"notfound", "error"}

\* Faulty variant of deleteLogsFailure: a 404 is not told apart.
deleteLogsFailureStrict(o) == o \in {"notfound", "error"}

\* deleteGoogleEvent: if (!response.ok && response.status !== 404) ...
deleteLogsFailure(o) == o = "error"

Call(op, src, id, body, o, logged) ==
    [op |-> op, src |-> src, id |-> id, body |-> body, outcome |-> o,
     logged |-> logged]

\* The run's state when syncCalendars is entered.
ResetRun ==
    /\ outlookEvents' = <<>>
    /\ googleEvents' = <<>>
    /\ googleEventsByUid' = <<>>
    /\ seenUids' = {}
    /\ stats' = ZeroStats
    /\ i' = 1
    /\ d' = 1
    /\ calls' = <<>>
    /\ thrown' = <<>>
    /\ result' = <<>>

\* Faulty variant of Throw: the failure is noted and the run goes on with nothing
\* read, as the mutation helpers do after console.error.
ThrowAndGoOn(msg) ==
    /\ pc' = "delete"
    /\ thrown' = <<msg>>

\* throw new Error(msg): syncCalendars rejects.
Throw(msg) ==
    /\ pc' = "failed"
    /\ thrown' = <<msg>>

---------------------------------------------------------------------------
(* Entry points: lines 3-37 *)

Tokens == {"", "secret", "wrong"}
\* A request with the bindings its invocation is given: SYNC_TOKEN is ""
\* when the secret is not set.  Requests for another path: one bare, one
\* that carries the right token.
Requests ==
    [pathname : {"/sync"}, header : Tokens, query : Tokens,
     SYNC_TOKEN : {"secret"}]
    \cup [pathname : {"/sync"}, header : {"", "wrong"}, query : {"", "wrong"},
          SYNC_TOKEN : {""}]
    \cup [pathname : {"/"}, header : {""}, query : {"", "secret"},
          SYNC_TOKEN : {"secret"}]

\* request.headers.get('X-Sync-Token') || url.searchParams.get('token')
SuppliedToken(req) == IF req.header # "" THEN req.header ELSE req.query

\* Faulty variant of Authorized: an unset SYNC_TOKEN is not refused.
AuthorizedWhenUnset(req) == SuppliedToken(req) = req.SYNC_TOKEN

\* line 16, negated
Authorized(req) == req.SYNC_TOKEN # "" /\ SuppliedToken(req) = req.SYNC_TOKEN

Unauthorized401 == [status |-> 401, body |-> "Unauthorized", json |-> <<>>]
NotFound404 == [status |-> 404, body |-> "Not found", json |-> <<>>]
SyncFailed500 == [status |-> 500, body |-> "json",
                  json |-> <<[error |-> "Sync failed"]>>]
Ok200(res) == [status |-> 200, body |-> "json", json |-> <<res>>]

\* What fetch answers without starting a run: <<>> when it starts one.
Refusal(req) ==
    IF req.pathname = "/sync"
    THEN IF Authorized(req) THEN <<>> ELSE <<Unauthorized401>>
    ELSE <<NotFound404>>

\* scheduled(event, env, ctx): ctx.waitUntil(syncCalendars(env))
scheduled ==
    /\ pc = "idle"
    /\ pc' = "token"
    /\ trigger' = "scheduled"
    /\ request' = <<>>
    /\ response' = <<>>
    /\ intact' = TRUE
    /\ rerun' = FALSE
    /\ ResetRun
    /\ UNCHANGED <<calendar, nextId, prev>>
    /\ UNCHANGED peer

\* fetch(request, env, ctx), up to its first await
fetch(req) ==
    /\ pc = "idle"
    /\ request' = <<req>>
    /\ IF Refusal(req) = <<>>
       THEN /\ pc' = "token"
            /\ trigger' = "http"
            /\ response' = <<>>
            /\ intact' = TRUE
            /\ rerun' = FALSE
            /\ ResetRun
            /\ UNCHANGED <<calendar, nextId, prev>>
       ELSE /\ response' = Refusal(req)
            /\ trigger' = "none"
            /\ ResetRun
            /\ UNCHANGED <<calendar, nextId, pc, prev, intact, rerun>>
    /\ UNCHANGED peer

---------------------------------------------------------------------------
(* syncCalendars: lines 39-86 *)

\* await getGoogleAccessToken(...): throws unless response.ok
getGoogleAccessToken(ok) ==
    /\ pc = "token"
    /\ IF ok THEN pc' = "ics" /\ thrown' = thrown
       ELSE Throw("Failed to get access token")
    /\ request' = <<>>
    /\ UNCHANGED <<calendar, nextId, trigger, response,
                   outlookEvents, googleEvents, googleEventsByUid, seenUids,
                   stats, i, d, calls, result, prev, intact, rerun>>
    /\ UNCHANGED peer

\* await fetch(OUTLOOK_ICS_URL), then parseICS: lines 58-69
fetchOutlookICS(ok, snapshot) ==
    /\ pc = "ics"
    /\ IF ok
       THEN /\ pc' = "list"
            /\ outlookEvents' = snapshot
            /\ rerun' = (prev = <<snapshot>>)
            /\ thrown' = thrown
       ELSE /\ Throw("Failed to fetch ICS")
            /\ UNCHANGED <<outlookEvents, rerun>>
    /\ prev' = <<>>
    /\ UNCHANGED <<calendar, nextId, trigger, request, response,
                   googleEvents, googleEventsByUid, seenUids, stats, i, d,
                   calls, result, intact>>
    /\ UNCHANGED peer

\* await getGoogleCalendarEvents(...), then syncEvents up to its first
\* await: lines 71-81 and 188-201
listGoogleEvents(ok) ==
    /\ pc = "list"
    /\ IF ok
       THEN /\ googleEvents' = getGoogleCalendarEvents(calendar)
            /\ googleEventsByUid' = BuildIndex(<<>>, googleEvents')
            /\ pc' = IF Len(outlookEvents) > 0 THEN "sync" ELSE "delete"
            /\ thrown' = thrown
       ELSE /\ Throw("Failed to get Google events")
            /\ UNCHANGED <<googleEvents, googleEventsByUid>>
    /\ UNCHANGED <<calendar, nextId, trigger, request, response,
                   outlookEvents, seenUids, stats, i, d, calls, result, prev,
                   intact, rerun>>
    /\ UNCHANGED peer

---------------------------------------------------------------------------
(* syncEvents: lines 203-267 *)

\* Faulty variant of Advance: the loop does not move on.
AdvanceStuck ==
    /\ i' = i
    /\ pc' = "sync"

\* After outlookEvents[i]: the next event, or the deletion pass.
Advance ==
    /\ i' = i + 1
    /\ pc' = IF i + 1 > Len(outlookEvents) THEN "delete" ELSE "sync"

\* lines 239-243: no existing Google event for the uid
createEvent(o) ==
    /\ pc = "sync"
    /\ Decision(googleEventsByUid, outlookEvents[i]) = "create"
    /\ o = "ok" => nextId <= MaxIds
    /\ LET e == outlookEvents[i]
           body == googleEventBody(e)
       IN  /\ seenUids' = seenUids \cup {e.uid}
           /\ calls' = Append(calls,
                  Call("create", i, 0, <<body>>, o, LogsFailure(o)))
           /\ IF o = "ok"
              THEN /\ calendar' = Insert(calendar, nextId, body)
                   /\ nextId' = nextId + 1
              ELSE UNCHANGED <<calendar, nextId>>
    /\ intact' = (intact /\ o = "ok")
    /\ IF o = "throw"
       THEN Throw("fetch failed") /\ UNCHANGED <<stats, i>>
       ELSE /\ stats' = [stats EXCEPT !.created = @ + 1]
            /\ Advance
            /\ thrown' = thrown
    /\ UNCHANGED <<trigger, request, response, outlookEvents,
                   googleEvents, googleEventsByUid, d, result, prev, rerun>>
    /\ UNCHANGED peer

\* lines 244-250: an existing Google event that is stale
updateEvent(o) ==
    /\ pc = "sync"
    /\ Decision(googleEventsByUid, outlookEvents[i]) = "update"
    /\ LET e == outlookEvents[i]
           body == googleEventBody(e)
           existing == MapGet(googleEventsByUid, e.uid)
       IN  /\ o \in Outcomes(existing.id \in Ids(calendar))
           /\ seenUids' = seenUids \cup {e.uid}
           /\ calls' = Append(calls,
                  Call("update", i, existing.id, <<body>>, o, LogsFailure(o)))
           /\ calendar' = IF o = "ok" THEN Patch(calendar, existing.id, body)
                          ELSE calendar
    /\ intact' = (intact /\ o = "ok")
    /\ IF o = "throw"
       THEN Throw("fetch failed") /\ UNCHANGED <<stats, i>>
       ELSE /\ stats' = [stats EXCEPT !.updated = @ + 1]
            /\ Advance
            /\ thrown' = thrown
    /\ UNCHANGED <<nextId, trigger, request, response, outlookEvents,
                   googleEvents, googleEventsByUid, d, result, prev, rerun>>
    /\ UNCHANGED peer

\* lines 251-253: an existing Google event that is current
keepEvent ==
    /\ pc = "sync"
    /\ Decision(googleEventsByUid, outlookEvents[i]) = "unchanged"
    /\ seenUids' = seenUids \cup {outlookEvents[i].uid}
    /\ stats' = [stats EXCEPT !.unchanged = @ + 1]
    /\ Advance
    /\ UNCHANGED <<calendar, nextId, trigger, request, response,
                   outlookEvents, googleEvents, googleEventsByUid, d, calls,
                   thrown, result, prev, intact, rerun>>
    /\ UNCHANGED peer

\* lines 257-264: the next Map entry whose uid was not seen
deleteEvent(o) ==
    /\ pc = "delete"
    /\ Stale(googleEventsByUid, seenUids, d) # {}
    /\ LET k == Min(Stale(googleEventsByUid, seenUids, d))
           googleEvent == googleEventsByUid[k].value
       IN  /\ o \in Outcomes(googleEvent.id \in Ids(calendar))
           /\ calls' = Append(calls,
                  Call("delete", 0, googleEvent.id, <<>>, o,
                       deleteLogsFailure(o)))
           /\ calendar' = IF o = "ok" THEN Remove(calendar, googleEvent.id)
                          ELSE calendar
           /\ d' = IF o = "throw" THEN d ELSE k + 1
    /\ intact' = (intact /\ o = "ok")
    /\ IF o = "throw"
       THEN Throw("fetch failed") /\ UNCHANGED stats
       ELSE /\ stats' = [stats EXCEPT !.deleted = @ + 1]
            /\ UNCHANGED <<pc, thrown>>
    /\ UNCHANGED <<nextId, trigger, request, response, outlookEvents,
                   googleEvents, googleEventsByUid, seenUids, i, result, prev,
                   rerun>>
    /\ UNCHANGED peer

\* line 266: return { stats, timestamp }
returnResult ==
    /\ pc = "delete"
    /\ Stale(googleEventsByUid, seenUids, d) = {}
    /\ pc' = "done"
    /\ d' = Len(googleEventsByUid) + 1
    /\ result' = <<[stats |-> stats]>>
    /\ UNCHANGED <<calendar, nextId, trigger, request, response,
                   outlookEvents, googleEvents, googleEventsByUid, seenUids,
                   stats, i, calls, thrown, prev, intact, rerun>>
    /\ UNCHANGED peer

---------------------------------------------------------------------------
(* The invocation ends: lines 20-31 for fetch, ctx.waitUntil for scheduled *)

settle ==
    /\ pc \in {"done", "failed"}
    /\ pc' = "idle"
    /\ response' = IF trigger = "http"
                   THEN IF pc = "done" THEN <<Ok200(result[1])>>
                        ELSE <<SyncFailed500>>
                   ELSE <<>>
    /\ prev' = IF pc = "done" /\ intact THEN <<outlookEvents>> ELSE <<>>
    \* the invocation's locals are gone; what it threw or returned is kept
    /\ outlookEvents' = <<>>
    /\ googleEvents' = <<>>
    /\ googleEventsByUid' = <<>>
    /\ seenUids' = {}
    /\ stats' = ZeroStats
    /\ i' = 1
    /\ d' = 1
    /\ calls' = <<>>
    /\ intact' = TRUE
    /\ rerun' = FALSE
    /\ UNCHANGED <<calendar, nextId, trigger, request, thrown, result>>
    /\ UNCHANGED peer

---------------------------------------------------------------------------
(* The calendar's owner deletes, by hand, an event the running sync has   *)
(* indexed and may still update or delete.  (A deletion at another time   *)
(* only makes for another calendar.)                                      *)

userDeletes(id) ==
    /\ pc \in {"sync", "delete"}
    /\ id \in Ids(calendar)
    /\ \E k \in 1..Len(googleEventsByUid) :
          /\ googleEventsByUid[k].value.id = id
          /\ pc = "delete" => k >= d /\ googleEventsByUid[k].key \notin seenUids
    /\ calendar' = Remove(calendar, id)
    /\ prev' = <<>>
    /\ intact' = FALSE
    /\ UNCHANGED <<nextId, pc, trigger, request, response, runVars,
                   rerun>>
    /\ UNCHANGED peer

---------------------------------------------------------------------------

Init ==
    /\ calendar \in {<<>>, <<ForeignItem(1)>>}
    /\ nextId = Len(calendar) + 1
    /\ pc = "idle"
    /\ trigger = "none"
    /\ request = <<>>
    /\ response = <<>>
    /\ outlookEvents = <<>>
    /\ googleEvents = <<>>
    /\ googleEventsByUid = <<>>
    /\ seenUids = {}
    /\ stats = ZeroStats
    /\ i = 1
    /\ d = 1
    /\ calls = <<>>
    /\ thrown = <<>>
    /\ result = <<>>
    /\ prev = <<>>
    /\ intact = TRUE
    /\ rerun = FALSE
    /\ peer = IdlePeer

Next ==
    \/ scheduled
    \/ \E req \in Requests : fetch(req)
    \/ \E ok \in BOOLEAN : getGoogleAccessToken(ok)
    \/ \E ok \in BOOLEAN : \E s \in Snapshots : fetchOutlookICS(ok, s)
    \/ \E ok \in BOOLEAN : listGoogleEvents(ok)
    \/ \E o \in Outcomes(TRUE) : createEvent(o)
    \/ \E o \in {"ok", "notfound", "error", "throw"} : updateEvent(o)
    \/ keepEvent
    \/ \E o \in {"ok", "notfound", "error", "throw"} : deleteEvent(o)
    \/ returnResult
    \/ settle
    \/ \E id \in 1..MaxIds : userDeletes(id)

Spec == Init /\ [][Next]_vars

---------------------------------------------------------------------------
(* A second invocation of the worker (the cron trigger fires again) that   *)
(* runs the same code while the first is under way.  Nothing in            *)
(* scheduled, fetch or syncCalendars takes a lock; the two share only the  *)
(* Google calendar.                                                        *)

\* What the second invocation leaves alone of the first one's state.
ownVars == <<pc, trigger, request, response, runVars, rerun>>

\* The second invocation's locals after a create or update got outcome o.
PeerAfterCall(p, counter, o) ==
    IF o = "throw" THEN [p EXCEPT !.pc = "failed"]
    ELSE [p EXCEPT !.stats[counter] = @ + 1,
                   !.i = @ + 1,
                   !.pc = IF p.i + 1 > Len(p.outlookEvents) THEN "delete"
                          ELSE "sync"]

\* scheduled(event, env, ctx), once more
peerScheduled ==
    /\ peer.pc = "idle"
    /\ peer' = [peer EXCEPT !.pc = "token"]
    /\ UNCHANGED <<calendar, nextId, ownVars, prev, intact>>

peerGetGoogleAccessToken(ok) ==
    /\ peer.pc = "token"
    /\ peer' = [peer EXCEPT !.pc = IF ok THEN "ics" ELSE "failed"]
    /\ UNCHANGED <<calendar, nextId, ownVars, prev, intact>>

peerFetchOutlookICS(ok, snapshot) ==
    /\ peer.pc = "ics"
    /\ peer' = IF ok THEN [peer EXCEPT !.pc = "list",
                                       !.outlookEvents = snapshot]
               ELSE [peer EXCEPT !.pc = "failed"]
    /\ UNCHANGED <<calendar, nextId, ownVars, prev, intact>>

peerListGoogleEvents(ok) ==
    /\ peer.pc = "list"
    /\ peer' =
          IF ok
          THEN [peer EXCEPT
                   !.googleEventsByUid =
                       BuildIndex(<<>>, getGoogleCalendarEvents(calendar)),
                   !.pc = IF Len(peer.outlookEvents) > 0 THEN "sync"
                          ELSE "delete"]
          ELSE [peer EXCEPT !.pc = "failed"]
    /\ UNCHANGED <<calendar, nextId, ownVars, prev, intact>>

peerCreateEvent(o) ==
    /\ peer.pc = "sync"
    /\ Decision(peer.googleEventsByUid, peer.outlookEvents[peer.i]) = "create"
    /\ o = "ok" => nextId <= MaxIds
    /\ LET e == peer.outlookEvents[peer.i]
           body == googleEventBody(e)
           p == [peer EXCEPT
                    !.seenUids = @ \cup {e.uid},
                    !.calls = Append(@, Call("create", peer.i, 0, <<body>>, o,
                                             LogsFailure(o)))]
       IN  /\ peer' = PeerAfterCall(p, "created", o)
           /\ IF o = "ok"
              THEN /\ calendar' = Insert(calendar, nextId, body)
                   /\ nextId' = nextId + 1
                   /\ prev' = <<>>
                   /\ intact' = FALSE
              ELSE UNCHANGED <<calendar, nextId, prev, intact>>
    /\ UNCHANGED ownVars

peerUpdateEvent(o) ==
    /\ peer.pc = "sync"
    /\ Decision(peer.googleEventsByUid, peer.outlookEvents[peer.i]) = "update"
    /\ LET e == peer.outlookEvents[peer.i]
           body == googleEventBody(e)
           existing == MapGet(peer.googleEventsByUid, e.uid)
           p == [peer EXCEPT
                    !.seenUids = @ \cup {e.uid},
                    !.calls = Append(@, Call("update", peer.i, existing.id,
                                             <<body>>, o, LogsFailure(o)))]
       IN  /\ o \in Outcomes(existing.id \in Ids(calendar))
           /\ peer' = PeerAfterCall(p, "updated", o)
           /\ IF o = "ok"
              THEN /\ calendar' = Patch(calendar, existing.id, body)
                   /\ prev' = <<>>
                   /\ intact' = FALSE
              ELSE UNCHANGED <<calendar, prev, intact>>
    /\ UNCHANGED <<nextId, ownVars>>

peerKeepEvent ==
    /\ peer.pc = "sync"
    /\ Decision(peer.googleEventsByUid, peer.outlookEvents[peer.i])
          = "unchanged"
    /\ peer' = PeerAfterCall(
                  [peer EXCEPT
                      !.seenUids = @ \cup {peer.outlookEvents[peer.i].uid}],
                  "unchanged", "none")
    /\ UNCHANGED <<calendar, nextId, ownVars, prev, intact>>

peerDeleteEvent(o) ==
    /\ peer.pc = "delete"
    /\ Stale(peer.googleEventsByUid, peer.seenUids, peer.d) # {}
    /\ LET k == Min(Stale(peer.googleEventsByUid, peer.seenUids, peer.d))
           googleEvent == peer.googleEventsByUid[k].value
           p == [peer EXCEPT
                    !.calls = Append(@, Call("delete", 0, googleEvent.id, <<>>,
                                             o, deleteLogsFailure(o)))]
       IN  /\ o \in Outcomes(googleEvent.id \in Ids(calendar))
           /\ peer' = IF o = "throw" THEN [p EXCEPT !.pc = "failed"]
                      ELSE [p EXCEPT !.stats.deleted = @ + 1, !.d = k + 1]
           /\ IF o = "ok"
              THEN /\ calendar' = Remove(calendar, googleEvent.id)
                   /\ prev' = <<>>
                   /\ intact' = FALSE
              ELSE UNCHANGED <<calendar, prev, intact>>
    /\ UNCHANGED <<nextId, ownVars>>

peerReturnResult ==
    /\ peer.pc = "delete"
    /\ Stale(peer.googleEventsByUid, peer.seenUids, peer.d) = {}
    /\ peer' = [peer EXCEPT !.pc = "done"]
    /\ UNCHANGED <<calendar, nextId, ownVars, prev, intact>>

\* The first invocation has neither returned nor thrown yet.
FirstInvocation == result = <<>> /\ thrown = <<>>

\* longest source snapshot of two overlapping invocations
MaxRaceSrc == 1

RaceSnapshots == {s \in Snapshots : Len(s) <= MaxRaceSrc}

\* Two invocations, each run once, in any interleaving.
NextRace ==
    \/ scheduled /\ FirstInvocation
    \/ \E req \in Requests : fetch(req) /\ FirstInvocation
    \/ \E ok \in BOOLEAN : getGoogleAccessToken(ok)
    \/ \E ok \in BOOLEAN : \E s \in RaceSnapshots : fetchOutlookICS(ok, s)
    \/ \E ok \in BOOLEAN : listGoogleEvents(ok)
    \/ \E o \in Outcomes(TRUE) : createEvent(o)
    \/ \E o \in {"ok", "notfound", "error", "throw"} : updateEvent(o)
    \/ keepEvent
    \/ \E o \in {"ok", "notfound", "error", "throw"} : deleteEvent(o)
    \/ returnResult
    \/ settle
    \/ peerScheduled
    \/ \E ok \in BOOLEAN : peerGetGoogleAccessToken(ok)
    \/ \E ok \in BOOLEAN : \E s \in RaceSnapshots : peerFetchOutlookICS(ok, s)
    \/ \E ok \in BOOLEAN : peerListGoogleEvents(ok)
    \/ \E o \in Outcomes(TRUE) : peerCreateEvent(o)
    \/ \E o \in {"ok", "notfound", "error", "throw"} : peerUpdateEvent(o)
    \/ peerKeepEvent
    \/ \E o \in {"ok", "notfound", "error", "throw"} : peerDeleteEvent(o)
    \/ peerReturnResult

SpecRace == Init /\ [][NextRace]_vars

---------------------------------------------------------------------------
(* Vocabulary of the properties *)

\* The source events the pass has finished with.
Processed == {j \in 1..Len(outlookEvents) : j < i}

\* The calls issued for source event j.
CallsFor(j) == {k \in 1..Len(calls) : calls[k].src = j}

CallsOf(op) == {k \in 1..Len(calls) : calls[k].op = op}

\* The delete calls against identifier id.
DeletesOf(id) == {k \in CallsOf("delete") : calls[k].id = id}

HasEntry(uid) == \E k \in 1..Len(googleEventsByUid) : googleEventsByUid[k].key = uid

\* The destination item the index holds for uid.
EntryFor(uid) ==
    googleEventsByUid[CHOOSE k \in 1..Len(googleEventsByUid) :
                          googleEventsByUid[k].key = uid].value

SameContent(item, e) ==
    /\ item.summary = e.summary
    /\ item.description = e.description
    /\ item.location = e.location

NoDuplicates(cal) ==
    \A a \in 1..Len(cal) : \A b \in 1..Len(cal) :
        (/\ Owned(cal[a])
         /\ cal[a].private.outlookSyncUid = cal[b].private.outlookSyncUid)
        => a = b

FatalMessages ==
    {"Failed to get access token", "Failed to fetch ICS",
     "Failed to get Google events"}

---------------------------------------------------------------------------
(* C1.  Idempotence: a run that repeats the source snapshot of the run     *)
(* before it, on the calendar that run left (every call of it took effect, *)
(* nobody else wrote), reports created = 0, updated = 0, deleted = 0 and   *)
(* unchanged = the number of source events.  Stated for snapshots whose    *)
(* uids are unique, as the data model requires.                            *)
C1_Idempotence ==
    (pc = "done" /\ rerun /\ UniqueUids(outlookEvents))
    => stats = [created |-> 0, updated |-> 0, deleted |-> 0,
                unchanged |-> Len(outlookEvents)]

(* C2.  No foreign mutation: an item without outlookSyncUid is never in    *)
(* the index and never the target of an update or delete call.             *)
C2_NoForeignMutation ==
    /\ \A k \in 1..Len(googleEventsByUid) : Owned(googleEventsByUid[k].value)
    /\ \A k \in CallsOf("update") \cup CallsOf("delete") :
          /\ \A n \in 1..Len(googleEvents) :
                googleEvents[n].id = calls[k].id => Owned(googleEvents[n])
          /\ \A n \in 1..Len(calendar) :
                calendar[n].id = calls[k].id => Owned(calendar[n])

C2_Witness ==
    /\ pc = "done"
    /\ \E n \in 1..Len(googleEvents) : ~Owned(googleEvents[n])
    /\ \E n \in 1..Len(calendar) : ~Owned(calendar[n])
    /\ CallsOf("update") # {}
    /\ CallsOf("delete") # {}

(* C3.  No duplication: runs executed one after another never leave two    *)
(* owned items with the same sourceUid in the calendar.  Stated as the     *)
(* step that would have to preserve it: from a calendar without            *)
(* duplicates, while the run's source snapshot has unique uids, no step    *)
(* leads to a calendar with duplicates.                                    *)
C3_NoDuplication ==
    [][(UniqueUids(outlookEvents) /\ NoDuplicates(calendar))
        => NoDuplicates(calendar')]_vars

(* C4.  Create-on-absence: a processed source event whose uid has no index *)
(* entry got exactly one call, a create whose body carries that uid and    *)
(* the event's lastModified; no update was issued for it.                  *)
C4_CreateOnAbsence ==
    \A j \in Processed :
        ~HasEntry(outlookEvents[j].uid)
        => \E k \in 1..Len(calls) :
              /\ CallsFor(j) = {k}
              /\ calls[k].op = "create"
              /\ calls[k].body[1].private =
                    [outlookSyncUid |-> outlookEvents[j].uid,
                     outlookLastModified |-> outlookEvents[j].lastModified]

C4_Witness ==
    /\ pc = "done"
    /\ \E j \in Processed : ~HasEntry(outlookEvents[j].uid)
    /\ \E j \in Processed : HasEntry(outlookEvents[j].uid)
    /\ CallsOf("update") # {}

(* C5.  Delete-on-disappearance: when the run returns, every index entry   *)
(* whose sourceUid is no uid of the source snapshot got exactly one delete *)
(* call against its item's identifier, every other entry got none, no      *)
(* delete went anywhere else, and a delete that took effect removed the    *)
(* item.                                                                   *)
C5_DeleteOnDisappearance ==
    pc = "done" =>
        /\ \A k \in 1..Len(googleEventsByUid) :
              Cardinality(DeletesOf(googleEventsByUid[k].value.id)) =
                  IF googleEventsByUid[k].key \in Uids(outlookEvents)
                  THEN 0 ELSE 1
        /\ \A c \in CallsOf("delete") :
              /\ \E k \in 1..Len(googleEventsByUid) :
                    googleEventsByUid[k].value.id = calls[c].id
              /\ calls[c].outcome = "ok" => calls[c].id \notin Ids(calendar)

C5_Witness ==
    /\ pc = "done"
    /\ \E k \in 1..Len(googleEventsByUid) :
          googleEventsByUid[k].key \in Uids(outlookEvents)
    /\ \E k \in 1..Len(googleEventsByUid) :
          googleEventsByUid[k].key \notin Uids(outlookEvents)

(* C6.  Update trigger, timestamp: a processed source event whose index    *)
(* entry stores another outlookLastModified, with summary, description and *)
(* location identical, got exactly one call: an update against the         *)
(* existing item's identifier.                                             *)
C6_UpdateOnTimestamp ==
    \A j \in Processed :
        LET e == outlookEvents[j] IN
        (/\ HasEntry(e.uid)
         /\ EntryFor(e.uid).private.outlookLastModified # e.lastModified
         /\ SameContent(EntryFor(e.uid), e))
        => \E k \in 1..Len(calls) :
              /\ CallsFor(j) = {k}
              /\ calls[k].op = "update"
              /\ calls[k].id = EntryFor(e.uid).id

C6_Witness ==
    /\ pc = "done"
    /\ \E j \in Processed :
          LET e == outlookEvents[j] IN
          /\ HasEntry(e.uid)
          /\ EntryFor(e.uid).private.outlookLastModified # e.lastModified
          /\ SameContent(EntryFor(e.uid), e)

(* C7.  Update trigger, content only: a processed source event whose index *)
(* entry stores the same outlookLastModified but another summary,          *)
(* description or location got exactly one call: an update against the     *)
(* existing item's identifier.                                             *)
C7_UpdateOnContent ==
    \A j \in Processed :
        LET e == outlookEvents[j] IN
        (/\ HasEntry(e.uid)
         /\ EntryFor(e.uid).private.outlookLastModified = e.lastModified
         /\ ~SameContent(EntryFor(e.uid), e))
        => \E k \in 1..Len(calls) :
              /\ CallsFor(j) = {k}
              /\ calls[k].op = "update"
              /\ calls[k].id = EntryFor(e.uid).id

C7_Witness ==
    /\ pc = "done"
    /\ \E j \in Processed :
          LET e == outlookEvents[j] IN
          /\ HasEntry(e.uid)
          /\ EntryFor(e.uid).private.outlookLastModified = e.lastModified
          /\ EntryFor(e.uid).summary # e.summary
          /\ EntryFor(e.uid).location = e.location

(* C8.  Fatal errors abort before any mutation: when the credential        *)
(* refresh, the feed fetch or the destination snapshot fetch fails, the    *)
(* run throws, returns no result, has issued no create, update or delete,  *)
(* and the on-demand trigger answers 500.                                  *)
C8_FatalAbortsBeforeMutation ==
    (thrown # <<>> /\ thrown[1] \in FatalMessages)
    => /\ pc \in {"failed", "idle"}
       /\ result = <<>>
       /\ calls = <<>>
       /\ (pc = "idle" /\ trigger = "http") => response = <<SyncFailed500>>

C8_Witness ==
    /\ pc = "idle"
    /\ trigger = "http"
    /\ thrown = <<"Failed to get Google events">>
    /\ response = <<SyncFailed500>>
    /\ \E n \in 1..Len(calendar) : Owned(calendar[n])

\* A step of the reconciler's two loops.
RunStep ==
    \/ \E o \in {"ok", "notfound", "error", "throw"} :
          createEvent(o) \/ updateEvent(o) \/ deleteEvent(o)
    \/ keepEvent
    \/ returnResult

(* C9.  Per-item failures are non-fatal: a non-success response to a       *)
(* create, update or delete never ends the run (only a rejected fetch      *)
(* does), the run can always take its next step, every call issued is      *)
(* counted whether it took effect or not, a run that returns has handled   *)
(* every source event and every stale index entry, and a 404 answer to a   *)
(* delete is not reported as a failure while any other failure is.         *)
C9_ItemFailuresNonFatal ==
    /\ pc = "failed" => (calls = <<>> \/ calls[Len(calls)].outcome = "throw")
    /\ pc \in {"sync", "delete"} => ENABLED RunStep
    /\ pc \in {"sync", "delete", "done"} =>
          /\ stats.created = Cardinality(CallsOf("create"))
          /\ stats.updated = Cardinality(CallsOf("update"))
          /\ stats.deleted = Cardinality(CallsOf("delete"))
    /\ pc = "done" =>
          /\ result = <<[stats |-> stats]>>
          /\ Processed = 1..Len(outlookEvents)
          /\ stats.created + stats.updated + stats.unchanged
                = Len(outlookEvents)
          /\ \A k \in 1..Len(googleEventsByUid) :
                googleEventsByUid[k].key \notin Uids(outlookEvents)
                => DeletesOf(googleEventsByUid[k].value.id) # {}
    /\ \A k \in 1..Len(calls) :
          calls[k].logged =
              IF calls[k].op = "delete" THEN calls[k].outcome = "error"
              ELSE calls[k].outcome \in {"error", "notfound"}

C9_Witness ==
    /\ pc = "done"
    /\ \E k \in CallsOf("create") \cup CallsOf("update") :
          calls[k].outcome = "error" /\ k < Len(calls)
    /\ \E k \in CallsOf("delete") :
          calls[k].outcome = "notfound" /\ ~calls[k].logged
    /\ stats.deleted = Cardinality(CallsOf("delete"))

(* C10.  An unauthorized request for /sync is answered exactly as a        *)
(* request for an unknown path is.                                         *)
C10_UnauthorizedLooksNotFound ==
    (/\ request # <<>>
     /\ response # <<>>
     /\ request[1].pathname = "/sync"
     /\ ~Authorized(request[1]))
    => response = Refusal([request[1] EXCEPT !.pathname = "/"])

\* The source event's fields the destination item is to carry.
Mirrors(item, e) ==
    /\ item.private.outlookSyncUid = e.uid
    /\ item.private.outlookLastModified = e.lastModified
    /\ SameContent(item, e)

\* The identifiers the index holds.
IndexedIds == {googleEventsByUid[k].value.id : k \in 1..Len(googleEventsByUid)}

Issued == IF Len(calls') = Len(calls) + 1 THEN <<calls'[Len(calls')]>> ELSE <<>>

(* C12.  Update is a full overwrite of the managed fields: when an update  *)
(* call lands, the item's summary, description, location, start, end,      *)
(* attendees, organizer and correlation payload are exactly those of the   *)
(* body sent; nothing of the previous version survives.                    *)
C12_UpdateIsFullOverwrite ==
    [][(Issued # <<>> /\ Issued[1].op = "update" /\ Issued[1].outcome = "ok")
       => \E n \in 1..Len(calendar') :
             /\ calendar'[n].id = Issued[1].id
             /\ <<calendar'[n]>> = Insert(<<>>, Issued[1].id, Issued[1].body[1])
      ]_vars

(* C13.  Mutation ordering: the calls of one run form a sequence in which  *)
(* a call that got no response is the last one (nothing is issued while a  *)
(* call is outstanding), the create and update calls follow the source     *)
(* list's order, and every delete call comes after the last create or      *)
(* update call, when the source pass is over.                              *)
C13_MutationOrdering ==
    /\ \A k \in 1..Len(calls) : calls[k].outcome = "throw" => k = Len(calls)
    /\ \A a \in 1..Len(calls) : \A b \in 1..Len(calls) :
          /\ (a < b /\ calls[a].op # "delete" /\ calls[b].op # "delete")
             => calls[a].src < calls[b].src
          /\ (calls[a].op = "delete" /\ calls[b].op # "delete") => b < a
    /\ CallsOf("delete") # {} => i > Len(outlookEvents)

C13_Witness ==
    /\ pc = "done"
    /\ Cardinality(CallsOf("create") \cup CallsOf("update")) >= 2
    /\ CallsOf("delete") # {}

\* The create calls in cs for uid that took effect.
CreatedFor(cs, uid) ==
    {k \in 1..Len(cs) : /\ cs[k].op = "create"
                        /\ cs[k].outcome = "ok"
                        /\ cs[k].body[1].private.outlookSyncUid = uid}

\* The calendar's items that carry uid.
ItemsFor(cal, uid) ==
    {n \in 1..Len(cal) : cal[n].private.outlookSyncUid = uid}

(* C14.  Overlapping runs race on the destination: nothing keeps an        *)
(* invocation from starting while the other is under way, and when both    *)
(* runs hold an index without an entry for a uid that both source          *)
(* snapshots carry, both issue a create for it; the creates that take      *)
(* effect each leave an owned item of their own, so that two of them leave *)
(* the calendar with two owned items for the one sourceUid.                *)
C14_OverlappingRunsRace ==
    /\ peer.pc = "idle" => ENABLED peerScheduled
    /\ (pc = "idle" /\ FirstInvocation) => ENABLED scheduled
    /\ \A uid \in Uids(Pool) :
          (/\ pc = "done"
           /\ peer.pc = "done"
           /\ uid \in Uids(outlookEvents) \cap Uids(peer.outlookEvents)
           /\ ~HasEntry(uid)
           /\ ~MapHas(peer.googleEventsByUid, uid))
          => /\ \E k \in CallsOf("create") :
                   calls[k].body[1].private.outlookSyncUid = uid
             /\ \E k \in 1..Len(peer.calls) :
                   /\ peer.calls[k].op = "create"
                   /\ peer.calls[k].body[1].private.outlookSyncUid = uid
             /\ Cardinality(ItemsFor(calendar, uid))
                   >= Cardinality(CreatedFor(calls, uid))
                      + Cardinality(CreatedFor(peer.calls, uid))

\* Both runs read a calendar without owned items, for snapshots that are
\* the same event; both created it, and the window holds the two items.
C14_Witness ==
    /\ pc = "done"
    /\ peer.pc = "done"
    /\ outlookEvents = <<Pool[1]>>
    /\ peer.outlookEvents = <<Pool[1]>>
    /\ googleEventsByUid = <<>>
    /\ peer.googleEventsByUid = <<>>
    /\ CreatedFor(calls, "A") # {}
    /\ CreatedFor(peer.calls, "A") # {}
    /\ Cardinality(ItemsFor(getGoogleCalendarEvents(calendar), "A")) = 2

\* The index holds an item for e that is current: same stored
\* lastModified, same summary, description and location.
Current(e) ==
    /\ HasEntry(e.uid)
    /\ EntryFor(e.uid).private.outlookLastModified = e.lastModified
    /\ SameContent(EntryFor(e.uid), e)

(* C15.  Unchanged means no mutation: for a source event whose index entry *)
(* stores the event's lastModified and has its summary, description and    *)
(* location, no call is issued for the event and no delete for the item;   *)
(* the step that handles the event adds one to the unchanged counter,      *)
(* touches no other counter, issues nothing and leaves the calendar as it  *)
(* was.                                                                    *)
C15_UnchangedMeansNoMutation ==
    /\ [](\A j \in Processed :
             Current(outlookEvents[j])
             => /\ CallsFor(j) = {}
                /\ DeletesOf(EntryFor(outlookEvents[j].uid).id) = {})
    /\ [][(pc = "sync" /\ i' = i + 1 /\ Current(outlookEvents[i]))
          => /\ calls' = calls
             /\ calendar' = calendar
             /\ stats' = [stats EXCEPT !.unchanged = @ + 1]]_vars

C15_Witness ==
    /\ pc = "done"
    /\ \E j \in Processed : Current(outlookEvents[j])
    /\ stats.unchanged = 1
    /\ stats.updated = 1
    /\ stats.deleted = 0

\* The source events that share uid.
EventsWith(uid) == {j \in 1..Len(outlookEvents) : outlookEvents[j].uid = uid}

(* C16.  Duplicate source uids are not deduplicated: the index stays what  *)
(* it was built as for the whole run; when the run returns, a uid without  *)
(* index entry that k source events share got k create calls, one for each *)
(* of the events, and a uid with an index entry got, for each of its       *)
(* events, the decision against the one indexed item (an update of that    *)
(* item, or nothing); every source uid is marked seen and no delete is     *)
(* issued for its item.                                                    *)
C16_NoSourceDeduplication ==
    /\ pc \in {"sync", "delete", "done"}
       => googleEventsByUid = BuildIndex(<<>>, googleEvents)
    /\ pc = "done" =>
          \A uid \in Uids(outlookEvents) :
             /\ uid \in seenUids
             /\ IF ~HasEntry(uid)
                THEN /\ \A j \in EventsWith(uid) : \E k \in CallsOf("create") :
                           /\ CallsFor(j) = {k}
                           /\ calls[k].body[1].private.outlookSyncUid = uid
                     /\ Cardinality({k \in CallsOf("create") :
                            calls[k].body[1].private.outlookSyncUid = uid})
                           = Cardinality(EventsWith(uid))
                ELSE /\ \A j \in EventsWith(uid) :
                           IF NeedsUpdate(EntryFor(uid), outlookEvents[j])
                           THEN \E k \in CallsOf("update") :
                                   /\ CallsFor(j) = {k}
                                   /\ calls[k].id = EntryFor(uid).id
                           ELSE CallsFor(j) = {}
                     /\ DeletesOf(EntryFor(uid).id) = {}

\* Two source events with one uid that has no index entry: two creates
\* that took effect, two items.
C16_Witness ==
    /\ pc = "done"
    /\ Len(outlookEvents) = 2
    /\ outlookEvents[1].uid = outlookEvents[2].uid
    /\ ~HasEntry(outlookEvents[1].uid)
    /\ Cardinality(CreatedFor(calls, outlookEvents[1].uid)) = 2
    /\ Cardinality(ItemsFor(calendar, outlookEvents[1].uid)) >= 2

\* The positions in the snapshot of the owned items that carry uid.
ListedWith(uid) ==
    {g \in 1..Len(googleEvents) : googleEvents[g].private.outlookSyncUid = uid}

\* The snapshot's items that a later item with the same sourceUid shadows.
Shadowed ==
    {g \in 1..Len(googleEvents) :
        /\ Owned(googleEvents[g])
        /\ \E h \in ListedWith(googleEvents[g].private.outlookSyncUid) : h > g}

(* C17.  Destination index construction: the index has one entry for each  *)
(* sourceUid the snapshot's owned items carry and no other; the entry      *)
(* holds the item that comes last in the snapshot among those with the     *)
(* uid; an earlier item with the same uid is the target of no update and   *)
(* no delete call of the run, whether the uid is in the source or not.     *)
C17_IndexLastWins ==
    pc \in {"sync", "delete", "done"} =>
       /\ \A a \in 1..Len(googleEventsByUid) :
             \A b \in 1..Len(googleEventsByUid) :
                googleEventsByUid[a].key = googleEventsByUid[b].key => a = b
       /\ {googleEventsByUid[k].key : k \in 1..Len(googleEventsByUid)}
             = {googleEvents[g].private.outlookSyncUid :
                   g \in {h \in 1..Len(googleEvents) : Owned(googleEvents[h])}}
       /\ \A k \in 1..Len(googleEventsByUid) :
             \E g \in ListedWith(googleEventsByUid[k].key) :
                /\ googleEventsByUid[k].value = googleEvents[g]
                /\ \A h \in ListedWith(googleEventsByUid[k].key) : h <= g
       /\ \A g \in Shadowed : \A k \in 1..Len(calls) :
             calls[k].op \in {"update", "delete"}
             => calls[k].id # googleEvents[g].id

\* The snapshot lists two items for a uid that the source has dropped: the
\* later one is deleted, the earlier one stays.
C17_Witness ==
    /\ pc = "done"
    /\ \E g \in Shadowed :
          /\ googleEvents[g].private.outlookSyncUid \notin Uids(outlookEvents)
          /\ googleEvents[g].id \in Ids(calendar)
          /\ \E h \in ListedWith(googleEvents[g].private.outlookSyncUid) :
                /\ h > g
                /\ DeletesOf(googleEvents[h].id) # {}
                /\ googleEvents[h].id \notin Ids(calendar)

\* An endpoint of the body as the claim describes it: the instant's date
\* token alone under date, or the instant as it is under dateTime.
EndpointAsClaimed(allDay, instant) ==
    IF allDay THEN [date |-> <<instant[1]>>, dateTime |-> <<>>]
    ELSE [date |-> <<>>, dateTime |-> instant]

(* C18.  Start/end encoding: the body built for a source event carries     *)
(* start and end as date-only members holding the part of the instant      *)
(* before 'T' when isAllDay is true ("2024-06-01T00:00:00.000Z" gives      *)
(* "2024-06-01"), and as dateTime members holding the source value as it   *)
(* is otherwise; no endpoint carries both members; and the body of every   *)
(* create and update call is the one built for its source event.           *)
C18_StartEndEncoding ==
    /\ googleEventBody(AllDayEvent("B", "Offsite", "T1", "2024-06-01",
                                   "2024-06-02", <<>>, NoOrganizer)).start
          = [date |-> <<"2024-06-01">>, dateTime |-> <<>>]
    /\ \A j \in 1..Len(outlookEvents) :
          LET e == outlookEvents[j]
              body == googleEventBody(e)
          IN  /\ body.start = EndpointAsClaimed(e.isAllDay, e.start)
              /\ body.end = EndpointAsClaimed(e.isAllDay, e.end)
              /\ body.start.date = <<>> \/ body.start.dateTime = <<>>
              /\ body.end.date = <<>> \/ body.end.dateTime = <<>>
              /\ \A k \in CallsFor(j) : calls[k].body = <<body>>

C18_Witness ==
    /\ pc = "done"
    /\ \E k \in 1..Len(calls) :
          /\ calls[k].op \in {"create", "update"}
          /\ calls[k].body[1].start = [date |-> <<"2024-06-01">>,
                                       dateTime |-> <<>>]
          /\ calls[k].body[1].end = [date |-> <<"2024-06-02">>,
                                     dateTime |-> <<>>]
    /\ \E k \in 1..Len(calls) :
          /\ calls[k].op \in {"create", "update"}
          /\ calls[k].body[1].start.dateTime
                = <<"2024-06-01", "T", "09:00:00.000Z">>

(* C19.  Counter conservation: when syncEvents returns, created + updated  *)
(* + unchanged is the number of source events, deleted is the number of    *)
(* index keys that are the uid of no source event, and the number of calls *)
(* issued is created + updated + deleted; the result carries these         *)
(* counters.                                                               *)
C19_CounterConservation ==
    pc = "done" =>
       /\ stats.created + stats.updated + stats.unchanged = Len(outlookEvents)
       /\ stats.deleted =
             Cardinality({k \in 1..Len(googleEventsByUid) :
                             googleEventsByUid[k].key \notin Uids(outlookEvents)})
       /\ Len(calls) = stats.created + stats.updated + stats.deleted
       /\ result[1].stats = stats

C19_Witness ==
    /\ pc = "done"
    /\ stats.unchanged = 1
    /\ stats.updated = 1
    /\ stats.deleted = 1
    /\ \E k \in 1..Len(calls) : calls[k].outcome = "error"

\* The request passes the gate: path /sync, SYNC_TOKEN set, and the token
\* read from the header, or from the query when the header has none, is it.
PassesGate(req) ==
    /\ req.pathname = "/sync"
    /\ req.SYNC_TOKEN # ""
    /\ \/ req.header = req.SYNC_TOKEN
       \/ req.header = "" /\ req.query = req.SYNC_TOKEN

\* Neither the header nor the query parameter carries SYNC_TOKEN.
NoTokenMatches(req) ==
    req.header # req.SYNC_TOKEN /\ req.query # req.SYNC_TOKEN

(* C20.  Trigger gating: the step that takes in an HTTP request starts a   *)
(* sync run only if the path is /sync, SYNC_TOKEN is set and the supplied  *)
(* token equals it; a request for another path, with SYNC_TOKEN unset or   *)
(* with no matching token starts none.  When no run is started the worker  *)
(* stays idle with a 401 or 404 answer: no credential refresh, no snapshot *)
(* fetch, no call, and the calendar is as it was.  A run on HTTP is only   *)
(* ever started by such a step.                                            *)
C20_TriggerGating ==
    [][/\ (pc = "idle" /\ request' # <<>>)
          => LET req == request'[1] IN
             /\ pc' \in {"idle", "token"}
             /\ pc' = "token" => (PassesGate(req) /\ trigger' = "http")
             /\ (\/ req.pathname # "/sync"
                 \/ req.SYNC_TOKEN = ""
                 \/ NoTokenMatches(req)) => pc' = "idle"
             /\ pc' = "idle"
                => /\ response' \in {<<Unauthorized401>>, <<NotFound404>>}
                   /\ trigger' = "none"
                   /\ calendar' = calendar
                   /\ calls' = <<>>
                   /\ outlookEvents' = <<>>
                   /\ googleEvents' = <<>>
       /\ (pc = "idle" /\ pc' # "idle" /\ trigger' = "http") => request' # <<>>
      ]_vars

\* /sync asked with the token in the query and another one in the header:
\* refused, the worker idle, while the calendar holds what earlier runs made.
C20_Witness ==
    /\ pc = "idle"
    /\ request # <<>>
    /\ request[1].pathname = "/sync"
    /\ request[1].header = "wrong"
    /\ request[1].query = request[1].SYNC_TOKEN
    /\ response = <<Unauthorized401>>
    /\ \E n \in 1..Len(calendar) : Owned(calendar[n])

===========================================================================
